---------------------------- MODULE Spec2Model ----------------------------
(***************************************************************************)
(* Auto-Onboarding-Orchestrator: the strategy resolver (app/permission.py),*)
(* the Redis persistence of decisions (app/redis_client.py), the dynamic   *)
(* Prometheus scrape-config mutation (app/prometheus_dynamic.py) and the   *)
(* two HTTP handlers (app/main.py).                                        *)
(*                                                                         *)
(* Python values are tagged tuples of strings, so that values of different *)
(* Python types can be compared: <<"bool","True">>, <<"NoneType">>,        *)
(* <<"str", s>>, <<"list", s1, ..., sn>> (a list of str).  A dict is a     *)
(* function from its keys to such values.  A call's outcome is a record    *)
(* [exc, value]: exc = "none" and value = <<v>> when it returns v, exc the *)
(* exception's name and value = <<>> when it raises.                       *)
(***************************************************************************)
EXTENDS Naturals, Sequences, FiniteSets, TLC

VARIABLES
    target,     \* SpecResolver: the URL handed to detect_monitoring_strategy
    net,        \* SpecResolver: what the network answers to each probe
    result,     \* SpecResolver: outcome of detect_monitoring_strategy
    store,      \* Redis: key |-> hash (field |-> string); no fields = no key
    lastSaved,  \* history: key |-> the Decision of the latest successful save
    resp,       \* outcome of the latest completed handler / store call
    file,       \* /etc/prometheus/prometheus.yml
    proc        \* per worker: the call it is executing and its locals

vars == <<target, net, result, store, lastSaved, resp, file, proc>>

---------------------------------------------------------------------------
(* Python values *)

PyTrue == <<"bool", "True">>
PyFalse == <<"bool", "False">>
PyNone == <<"NoneType">>
PyStr(s) == <<"str", s>>
PyList(items) == <<"list">> \o items
PyBool(b) == IF b THEN PyTrue ELSE PyFalse

Ok(v) == [exc |-> "none", value |-> <<v>>]
Raise(e) == [exc |-> e, value |-> <<>>]

RECURSIVE ReprJoin(_)
\* ", ".join(repr(s) for s in items), for strings without quotes
ReprJoin(items) ==
    IF items = <<>> THEN ""
    ELSE IF Len(items) = 1 THEN "'" \o items[1] \o "'"
    ELSE "'" \o items[1] \o "', " \o ReprJoin(Tail(items))

\* Python's str(v)
str(v) ==
    CASE v[1] = "bool" -> v[2]
      [] v[1] = "NoneType" -> "None"
      [] v[1] = "str" -> v[2]
      [] v[1] = "list" -> "[" \o ReprJoin(Tail(v)) \o "]"

---------------------------------------------------------------------------
(* Character strings, for the substring tests on response headers *)

LowerOf ==
    ("A" :> "a") @@ ("B" :> "b") @@ ("C" :> "c") @@ ("D" :> "d") @@
    ("E" :> "e") @@ ("F" :> "f") @@ ("G" :> "g") @@ ("H" :> "h") @@
    ("I" :> "i") @@ ("J" :> "j") @@ ("K" :> "k") @@ ("L" :> "l") @@
    ("M" :> "m") @@ ("N" :> "n") @@ ("O" :> "o") @@ ("P" :> "p") @@
    ("Q" :> "q") @@ ("R" :> "r") @@ ("S" :> "s") @@ ("T" :> "t") @@
    ("U" :> "u") @@ ("V" :> "v") @@ ("W" :> "w") @@ ("X" :> "x") @@
    ("Y" :> "y") @@ ("Z" :> "z")

\* str.lower() on a sequence of characters
lower(s) == [i \in 1..Len(s) |-> IF s[i] \in DOMAIN LowerOf THEN LowerOf[s[i]] ELSE s[i]]

\* Python's `needle in hay` on sequences of characters
contains(hay, needle) ==
    \E i \in 0..Len(hay) :
        /\ i + Len(needle) <= Len(hay)
        /\ \A j \in 1..Len(needle) : hay[i + j] = needle[j]

\* Response headers the model's targets may send, as (name, value).
HeaderPool == <<
    << <<"X","-","K","u","b","e","r","n","e","t","e","s","-","U","i","d">>, <<"7">> >>,
    << <<"x","-","a","m","z","n","-","R","e","q","u","e","s","t","I","d">>, <<"1">> >>,
    << <<"V","a","r","y">>, <<"X","-","G","o","o","g","-","K","e","y">> >>,
    << <<"X","-","M","s","-","R","e","q","u","e","s","t","-","I","d">>, <<"2">> >>
>>

\* A headers dict: the set of HeaderPool indices present (dict order = pool order).
HeaderSets == SUBSET (1..Len(HeaderPool))

RECURSIVE ItemsStr(_, _)
\* the "'k': 'v', 'k2': 'v2'" part of str(dict), from pool index i on
ItemsStr(hs, i) ==
    IF i > Len(HeaderPool) THEN <<>>
    ELSE IF i \notin hs THEN ItemsStr(hs, i + 1)
    ELSE LET rest == ItemsStr(hs, i + 1)
             item == <<"'">> \o HeaderPool[i][1] \o <<"'", ":", " ", "'">>
                        \o HeaderPool[i][2] \o <<"'">>
         IN  IF rest = <<>> THEN item ELSE item \o <<",", " ">> \o rest

\* str(headers)
str_headers(hs) == <<"{">> \o ItemsStr(hs, 1) \o <<"}">>

detect_kubernetes_env(headers) ==
    contains(lower(str_headers(headers)), <<"x","-","k","u","b","e","r","n","e","t","e","s">>)

detect_cloud_provider(headers) ==
    LET header_str == lower(str_headers(headers))
    IN  IF contains(header_str, <<"x","-","a","m","z","n">>) THEN PyStr("aws")
        ELSE IF contains(header_str, <<"x","-","g","o","o","g">>) THEN PyStr("gcp")
        ELSE IF contains(header_str, <<"x","-","m","s">>) THEN PyStr("azure")
        ELSE PyNone

\* The two header inspections of each headers dict, computed once.
HeaderFacts ==
    [hs \in HeaderSets |->
        [k8s |-> detect_kubernetes_env(hs), cloud |-> detect_cloud_provider(hs)]]

---------------------------------------------------------------------------
(* Targets and urlparse *)

URL_SVC == "http://svc.local"
URL_SVC_ALT == "http://svc.local:8080"
URL_API == "http://api.internal"
URL_NOHOST == "svc.local/metrics"
URL_BAD == "http://[::1"

\* urllib.parse.urlparse(url): the parse result, or ValueError.
urlparse(url) ==
    CASE url = URL_SVC -> Ok([scheme |-> "http", hostname |-> PyStr("svc.local")])
      [] url = URL_SVC_ALT -> Ok([scheme |-> "http", hostname |-> PyStr("svc.local")])
      [] url = URL_API -> Ok([scheme |-> "http", hostname |-> PyStr("api.internal")])
      [] url = URL_NOHOST -> Ok([scheme |-> "", hostname |-> PyNone])
      [] url = URL_BAD -> Raise("ValueError")

\* A malformed target: the URL does not parse, or it names no host.
Malformed(url) ==
    \/ urlparse(url).exc # "none"
    \/ urlparse(url).value[1].hostname = PyNone

---------------------------------------------------------------------------
(* The network, as seen by one resolution call *)

TransportFailures == {"refused", "dns", "timeout", "tls"}

\* Response bodies of GET /metrics, as characters.
BodyPool == <<
    <<"#"," ","H","E","L","P"," ","u","p">>,
    <<"#"," ","h","e","l","p">>
>>

\* "HELP" in r.text, computed once per body.
BodyFacts == [b \in 1..Len(BodyPool) |-> contains(BodyPool[b], <<"H","E","L","P">>)]

Failed(k) == [fail |-> k, status |-> 0, body |-> 1, headers |-> {}]
Answer(st, b, hs) == [fail |-> "none", status |-> st, body |-> b, headers |-> hs]

\* Every combination of probe answers in which a failing probe fails with k.
EnvsWith(k) ==
    [ base2    : {Failed(k)} \cup {Answer(200, 1, hs) : hs \in HeaderSets},
      metrics1 : {Failed(k)} \cup {Answer(st, b, {}) : st \in {200, 403}, b \in 1..Len(BodyPool)},
      metrics2 : {Failed(k)} \cup {Answer(st, 1, {}) : st \in {200, 401, 403}},
      traces   : {Failed(k)} \cup {Answer(st, 1, {}) : st \in {200, 404, 415, 500}},
      otlpm    : {Failed(k)} \cup {Answer(st, 1, {}) : st \in {415, 500}},
      grpc     : {Failed(k), Answer(0, 1, {})},
      statsd   : {Failed(k), Answer(0, 1, {})},
      base5    : {Failed(k)} \cup {Answer(st, 1, {}) : st \in {200, 499, 500}} ]

Envs == UNION {EnvsWith(k) : k \in TransportFailures}

\* requests.get / requests.post: the response, or the exception requests raises.
\* A URL without scheme or host is refused before anything is sent.
requests_send(url, answer) ==
    IF Malformed(url) THEN Raise("MissingSchema")
    ELSE IF answer.fail # "none" THEN Raise(answer.fail)
    ELSE Ok(answer)

\* socket.create_connection((host, port)); host None resolves to the loopback.
create_connection(host, answer) ==
    IF answer.fail # "none" THEN Raise(answer.fail) ELSE Ok(answer)

\* try: <call> except Exception: <fallback>
TryExcept(r, fallback) == IF r.exc # "none" THEN Ok(fallback) ELSE r

---------------------------------------------------------------------------
(* The probes (app/permission.py) *)

check_prometheus_metrics(base_url, n) ==
    LET r == requests_send(base_url, n.metrics1)
    IN  TryExcept(IF r.exc # "none" THEN r
                  ELSE Ok(r.value[1].status = 200 /\ BodyFacts[r.value[1].body]),
                  FALSE)

\* Mutant of check_prometheus_auth: 403 is not taken for "requires auth".
check_prometheus_auth_only401(base_url, n) ==
    LET r == requests_send(base_url, n.metrics2)
    IN  TryExcept(IF r.exc # "none" THEN r
                  ELSE Ok(r.value[1].status \in {401}),
                  FALSE)

check_prometheus_auth(base_url, n) ==
    LET r == requests_send(base_url, n.metrics2)
    IN  TryExcept(IF r.exc # "none" THEN r
                  ELSE Ok(r.value[1].status \in {401, 403}),
                  FALSE)

\* One iteration of the loop over otlp_paths: TRUE = return True, FALSE = go on.
otlp_path_hit(base_url, answer) ==
    LET r == requests_send(base_url, answer)
    IN  TryExcept(IF r.exc # "none" THEN r
                  ELSE Ok(r.value[1].status \in {200, 404, 415}),
                  FALSE)

check_otlp_http(base_url, n) ==
    LET first == otlp_path_hit(base_url, n.traces)
    IN  IF first.exc # "none" THEN first
        ELSE IF first.value[1] THEN Ok(TRUE)
        ELSE LET second == otlp_path_hit(base_url, n.otlpm)
             IN  IF second.exc # "none" THEN second
                 ELSE IF second.value[1] THEN Ok(TRUE)
                 ELSE Ok(FALSE)

\* Mutant of check_otlp_grpc: the connect is not wrapped in try/except.
check_otlp_grpc_unguarded(host, n) ==
    LET c == create_connection(host, n.grpc)
    IN  IF c.exc # "none" THEN c ELSE Ok(TRUE)

check_otlp_grpc(host, n) ==
    LET c == create_connection(host, n.grpc)
    IN  TryExcept(IF c.exc # "none" THEN c ELSE Ok(TRUE), FALSE)

check_statsd(host, n) ==
    LET c == create_connection(host, n.statsd)
    IN  TryExcept(IF c.exc # "none" THEN c ELSE Ok(TRUE), FALSE)

\* Mutant of check_blackbox_http: a 500 still counts as reachable.
check_blackbox_http_le500(url, n) ==
    LET r == requests_send(url, n.base5)
    IN  TryExcept(IF r.exc # "none" THEN r ELSE Ok(r.value[1].status <= 500), FALSE)

check_blackbox_http(url, n) ==
    LET r == requests_send(url, n.base5)
    IN  TryExcept(IF r.exc # "none" THEN r ELSE Ok(r.value[1].status < 500), FALSE)

\* headers = requests.get(base_url, timeout=2).headers, or {} on any exception
fetch_headers(base_url, n) ==
    LET r == requests_send(base_url, n.base2)
    IN  TryExcept(IF r.exc # "none" THEN r ELSE Ok(r.value[1].headers), {})

---------------------------------------------------------------------------
(* The strategy resolver (app/permission.py) *)

NextSteps == <<"Expose /metrics", "Enable OpenTelemetry SDK",
               "Deploy OpenTelemetry Collector", "Use blackbox exporter">>

Monitorable(strategy, confidence, details) ==
    [monitorable |-> PyTrue, strategy |-> PyStr(strategy),
     confidence |-> PyStr(confidence), details |-> PyStr(details)]

\* Mutant of Unmonitorable: the fallback names its strategy "none" instead
\* of leaving it None.
Unmonitorable_strategy_none ==
    [monitorable |-> PyFalse, strategy |-> PyStr("none"), confidence |-> PyStr("none"),
     details |-> PyStr("No metrics or telemetry endpoints detected"),
     next_steps |-> PyList(NextSteps)]

Unmonitorable ==
    [monitorable |-> PyFalse, strategy |-> PyNone, confidence |-> PyStr("none"),
     details |-> PyStr("No metrics or telemetry endpoints detected"),
     next_steps |-> PyList(NextSteps)]

\* upper() of the three provider names
CloudUpper(cloud) ==
    CASE cloud = "aws" -> "AWS" [] cloud = "gcp" -> "GCP" [] cloud = "azure" -> "AZURE"

\* `if <check>: return <decision>`, an exception of the check propagating
IfReturn(check, decision, otherwise) ==
    IF check.exc # "none" THEN check
    ELSE IF check.value[1] THEN Ok(decision)
    ELSE otherwise

detect_monitoring_strategy(base_url, n) ==
    LET parsed == urlparse(base_url)
    IN  IF parsed.exc # "none" THEN parsed
        ELSE
        LET host == parsed.value[1].hostname
            fetched == fetch_headers(base_url, n)
        IN  IF fetched.exc # "none" THEN fetched
            ELSE
            LET headers == fetched.value[1]
                cloud == HeaderFacts[headers].cloud
            IN
            IfReturn(check_prometheus_metrics(base_url, n),
                Monitorable("prometheus", "high", "/metrics endpoint detected"),
            IfReturn(check_prometheus_auth(base_url, n),
                Monitorable("prometheus-auth", "medium", "/metrics exists but requires auth"),
            IfReturn(check_otlp_http(base_url, n),
                Monitorable("opentelemetry-http", "high", "OTLP HTTP endpoint detected"),
            IfReturn(check_otlp_grpc(host, n),
                Monitorable("opentelemetry-grpc", "high",
                            "OTLP gRPC endpoint detected on port 4317"),
            IfReturn(check_statsd(host, n),
                Monitorable("statsd", "medium", "StatsD-compatible agent detected"),
            IfReturn(Ok(HeaderFacts[headers].k8s),
                Monitorable("kubernetes-auto", "medium", "Kubernetes environment detected"),
            IfReturn(Ok(cloud # PyNone),
                Monitorable(str(cloud) \o "-cloud-metrics", "low",
                            CloudUpper(str(cloud)) \o " headers detected"),
            IfReturn(check_blackbox_http(base_url, n),
                Monitorable("blackbox-http", "low",
                            "Only uptime / latency monitoring possible"),
            Ok(Unmonitorable)))))))))

---------------------------------------------------------------------------
(* Initial values of the service state *)

Keys == {URL_SVC, URL_API}
Procs == {"w1", "w2"}

EmptyHash == << >>
NoDecision == << >>
Pending == [exc |-> "pending", value |-> <<>>]

NoResp == [op |-> "none"]
EmptyFile == [ok |-> TRUE, jobs |-> <<>>]
Idle == [pc |-> "idle"]

ServiceInit ==
    /\ store = [k \in {"app:" \o u : u \in Keys} |-> EmptyHash]
    /\ lastSaved = [k \in Keys |-> NoDecision]
    /\ resp = NoResp
    /\ file = EmptyFile
    /\ proc = [p \in Procs |-> Idle]

serviceVars == <<store, lastSaved, resp, file, proc>>

---------------------------------------------------------------------------
(* SpecResolver: one resolution call against every network state *)

\* For a malformed target no HTTP request is ever sent: only the two TCP
\* connects (to the loopback) have an answer.
LoopbackEnvs ==
    {n \in EnvsWith("refused") :
        \A f \in {"base2", "metrics1", "metrics2", "traces", "otlpm", "base5"} :
            n[f] = Failed("refused")}

InitResolver ==
    /\ \/ target = URL_SVC /\ net \in Envs
       \/ target \in {URL_NOHOST, URL_BAD} /\ net \in LoopbackEnvs
    /\ result = Pending
    /\ ServiceInit

Resolve ==
    /\ result = Pending
    /\ result' = detect_monitoring_strategy(target, net)
    /\ UNCHANGED <<target, net, serviceVars>>

NextResolver == Resolve

SpecResolver == InitResolver /\ [][NextResolver]_vars

---------------------------------------------------------------------------
(* The priority table of the specification, read off the raw answers *)

Answered(a) == a.fail = "none"

\* Row i of the table succeeds on network n (for a well-formed target).
RowSucceeds(n, i) ==
    CASE i = 1 -> Answered(n.metrics1) /\ n.metrics1.status = 200 /\ n.metrics1.body = 1
      [] i = 2 -> Answered(n.metrics2) /\ n.metrics2.status \in {401, 403}
      [] i = 3 -> \/ Answered(n.traces) /\ n.traces.status \in {200, 404, 415}
                  \/ Answered(n.otlpm) /\ n.otlpm.status \in {200, 404, 415}
      [] i = 4 -> Answered(n.grpc)
      [] i = 5 -> Answered(n.statsd)
      [] i = 6 -> Answered(n.base2) /\ 1 \in n.base2.headers
      [] i = 7 -> Answered(n.base2) /\ n.base2.headers \cap {2, 3, 4} # {}
      [] i = 8 -> Answered(n.base5) /\ n.base5.status < 500
      [] i = 9 -> TRUE

FirstRow(n) == CHOOSE i \in 1..9 : RowSucceeds(n, i) /\ \A j \in 1..(i - 1) : ~RowSucceeds(n, j)

RowStrategies(n, i) ==
    CASE i = 1 -> {PyStr("prometheus")}
      [] i = 2 -> {PyStr("prometheus-auth")}
      [] i = 3 -> {PyStr("opentelemetry-http")}
      [] i = 4 -> {PyStr("opentelemetry-grpc")}
      [] i = 5 -> {PyStr("statsd")}
      [] i = 6 -> {PyStr("kubernetes-auto")}
      [] i = 7 -> {PyStr("aws-cloud-metrics") : x \in n.base2.headers \cap {2}}
                  \cup {PyStr("gcp-cloud-metrics") : x \in n.base2.headers \cap {3}}
                  \cup {PyStr("azure-cloud-metrics") : x \in n.base2.headers \cap {4}}
      [] i = 8 -> {PyStr("blackbox-http")}
      [] i = 9 -> {PyNone}

RowConfidence(i) ==
    CASE i \in {1, 3, 4} -> PyStr("high")
      [] i \in {2, 5, 6} -> PyStr("medium")
      [] i \in {7, 8} -> PyStr("low")
      [] i = 9 -> PyStr("none")

Resolved == result # Pending

\* C1: for every combination of probe outcomes the resolver returns the
\* strategy and the confidence of the first row of the priority table whose
\* probe succeeds, whatever the lower-priority probes answer; when the
\* metrics-marker probe succeeds that is prometheus / high.
C1_PriorityDominance ==
    (Resolved /\ ~Malformed(target)) =>
        /\ result.exc = "none"
        /\ result.value[1].strategy \in RowStrategies(net, FirstRow(net))
        /\ result.value[1].confidence = RowConfidence(FirstRow(net))
        /\ RowSucceeds(net, 1) =>
              /\ result.value[1].strategy = PyStr("prometheus")
              /\ result.value[1].confidence = PyStr("high")

\* The metrics-marker probe succeeds together with lower-priority probes
\* (auth answer on the second GET, gRPC, a Kubernetes header, blackbox).
C1_Witness ==
    /\ Resolved /\ ~Malformed(target)
    /\ RowSucceeds(net, 1) /\ RowSucceeds(net, 2) /\ RowSucceeds(net, 4)
    /\ RowSucceeds(net, 6) /\ RowSucceeds(net, 8)
    /\ result.value[1].strategy = PyStr("prometheus")

\* C2: when every probe fails the resolver returns monitorable = false, no
\* strategy, confidence none and exactly the four remediation suggestions
\* in their fixed order.
C2_AllFailUnmonitorable ==
    (Resolved /\ ~Malformed(target) /\ FirstRow(net) = 9) =>
        /\ result.exc = "none"
        /\ DOMAIN result.value[1] =
              {"monitorable", "strategy", "confidence", "details", "next_steps"}
        /\ result.value[1].monitorable = PyFalse
        /\ result.value[1].strategy = PyNone
        /\ result.value[1].confidence = PyStr("none")
        /\ result.value[1].next_steps =
              <<"list", "Expose /metrics", "Enable OpenTelemetry SDK",
                "Deploy OpenTelemetry Collector", "Use blackbox exporter">>

\* Every probe fails: the header GET answers without markers, /metrics and
\* the OTLP paths answer with other statuses, the blackbox GET gets a 500.
C2_Witness ==
    /\ Resolved /\ ~Malformed(target) /\ FirstRow(net) = 9
    /\ Answered(net.base2) /\ Answered(net.metrics1) /\ Answered(net.base5)
    /\ result.exc = "none" /\ result.value[1].monitorable = PyFalse

\* The network n with every transport failure replaced by an answer that
\* matches no probe.
AsNoMatch(n) ==
    [f \in DOMAIN n |-> IF Answered(n[f]) THEN n[f]
                        ELSE IF f \in {"grpc", "statsd"} THEN n[f]
                        ELSE Answer(500, 2, {})]

\* C4: for a target whose URL parses, a resolution call returns a Decision
\* and never raises; a transport failure of a probe or of the header GET
\* counts as that probe not matching (the Decision is the one the resolver
\* returns when the failed requests are answered with a non-matching
\* response), and evaluation goes on to the next candidate.
C4_TransportFailureIsProbeFailure ==
    (Resolved /\ urlparse(target).exc = "none") =>
        /\ result.exc = "none"
        /\ result = detect_monitoring_strategy(target, AsNoMatch(net))
        /\ (\A f \in DOMAIN net : ~Answered(net[f])) =>
              result.value[1].strategy = PyNone

\* The header GET, both /metrics GETs, the OTLP POSTs and the gRPC connect
\* fail by timeout, and the StatsD connect decides the strategy.
C4_Witness ==
    /\ Resolved /\ target = URL_SVC
    /\ \A f \in {"base2", "metrics1", "metrics2", "traces", "otlpm", "grpc"} :
          net[f].fail = "timeout"
    /\ result.exc = "none"
    /\ result.value[1].strategy = PyStr("statsd")

\* C5: a malformed target (URL that does not parse, or without host) makes
\* the resolution call fail instead of returning a Decision.
C5_MalformedTargetFails ==
    (Resolved /\ Malformed(target)) => result.exc # "none"

---------------------------------------------------------------------------
(* Persistence of decisions (app/redis_client.py) *)

\* f"app:{app_name}"
RedisKey(app_name) == "app:" \o app_name

_serialize_strategy(strategy_info) ==
    [k \in DOMAIN strategy_info |->
        LET v == strategy_info[k]
        IN  CASE v[1] = "bool" -> str(v)
              [] v = PyNone -> "None"
              [] OTHER -> str(v)]

\* HSET key field value [field value ...]: sets the given fields of the hash
\* and leaves its other fields as they are.
hset(hash, mapping) == mapping @@ hash

\* str.isdigit() and "float(v) does not raise", on the strings of the model:
\* the only all-digit strings of the program are its two port numbers, and
\* no other string of a Decision parses as a float.
isdigit(v) == v \in {"4317", "8125"}
float_parses(v) == isdigit(v) \/ v \in {"nan", "inf", "1.0"}

\* The conversion loop of get_monitoring_strategy, on one value.
parse_value(v) ==
    IF v = "True" THEN PyTrue
    ELSE IF v = "False" THEN PyFalse
    ELSE IF v = "None" THEN PyNone
    ELSE IF isdigit(v) THEN <<"int", v>>
    ELSE IF float_parses(v) THEN <<"float", v>>
    ELSE PyStr(v)

\* The outcome of get_monitoring_strategy on the stored hash; the sentinel
\* None is returned for a key without fields.
get_monitoring_strategy(hash) ==
    IF DOMAIN hash = {} THEN Ok(PyNone)
    ELSE Ok([k \in DOMAIN hash |-> parse_value(hash[k])])

NotFound ==
    [monitorable |-> PyFalse, strategy |-> PyNone, confidence |-> PyStr("none"),
     details |-> PyStr("No strategy found")]

\* get_saved_strategy: `if not saved: return {...}; return saved`
saved_or_not_found(fetched) ==
    IF fetched.exc # "none" THEN fetched
    ELSE IF fetched.value[1] = PyNone THEN Ok(NotFound)
    ELSE fetched

\* Networks in which each probe either matches or is refused: a subset of
\* Envs on which the resolver returns each of its Decisions.
ServiceEnvs ==
    [ base2    : {Failed("refused")} \cup {Answer(200, 1, hs) : hs \in HeaderSets},
      metrics1 : {Failed("refused"), Answer(200, 1, {})},
      metrics2 : {Failed("refused"), Answer(403, 1, {})},
      traces   : {Failed("refused"), Answer(404, 1, {})},
      otlpm    : {Failed("refused")},
      grpc     : {Failed("refused"), Answer(0, 1, {})},
      statsd   : {Failed("refused"), Answer(0, 1, {})},
      base5    : {Failed("refused"), Answer(200, 1, {})} ]

\* The Decisions detect_monitoring_strategy returns for a URL.
Decisions ==
    [u \in {URL_SVC, URL_SVC_ALT, URL_API} |->
        {detect_monitoring_strategy(u, n).value[1] : n \in ServiceEnvs}]

\* No resolution call of SpecResolver is in progress.
ResolverIdle == target = "" /\ net = <<>> /\ result = Pending

RedisErrors == {"ConnectionError", "RedisError"}

StoreResp(op, key, out) == [op |-> op, key |-> key, out |-> out]

\* save_monitoring_strategy(app_name, strategy_info), as onboard_app calls it
\* with the Decision of the resolver.
Save(app_name, strategy_info) ==
    /\ \/ /\ store' = [store EXCEPT ![RedisKey(app_name)] =
                          hset(@, _serialize_strategy(strategy_info))]
          /\ lastSaved' = [lastSaved EXCEPT ![app_name] = strategy_info]
          /\ resp' = StoreResp("save_monitoring_strategy", app_name, Ok(PyNone))
       \/ \E e \in RedisErrors :
          /\ resp' = StoreResp("save_monitoring_strategy", app_name, Raise(e))
          /\ UNCHANGED <<store, lastSaved>>
    /\ UNCHANGED <<target, net, result, file, proc>>

\* get_saved_strategy(app_url)
GetSaved(app_url) ==
    /\ \/ resp' = StoreResp("get_saved_strategy", app_url,
                     saved_or_not_found(get_monitoring_strategy(store[RedisKey(app_url)])))
       \/ \E e \in RedisErrors :
             resp' = StoreResp("get_saved_strategy", app_url, saved_or_not_found(Raise(e)))
    /\ UNCHANGED <<target, net, result, store, lastSaved, file, proc>>

\* delete_monitoring_strategy(app_name)
Delete(app_name) ==
    /\ \/ /\ store' = [store EXCEPT ![RedisKey(app_name)] = EmptyHash]
          /\ lastSaved' = [lastSaved EXCEPT ![app_name] = NoDecision]
          /\ resp' = StoreResp("delete_monitoring_strategy", app_name, Ok(PyNone))
       \/ \E e \in RedisErrors :
          /\ resp' = StoreResp("delete_monitoring_strategy", app_name, Raise(e))
          /\ UNCHANGED <<store, lastSaved>>
    /\ UNCHANGED <<target, net, result, file, proc>>

InitStore == ResolverIdle /\ ServiceInit

NextStore ==
    \/ \E k \in Keys : \E d \in Decisions[k] : Save(k, d)
    \/ \E k \in Keys : GetSaved(k)
    \/ \E k \in Keys : Delete(k)

SpecStore == InitStore /\ [][NextStore]_vars

---------------------------------------------------------------------------
(* The scrape-config mutation (app/prometheus_dynamic.py) *)

Unreadable == [ok |-> FALSE, jobs |-> <<>>]

\* configure_prometheus_scrape: the scrape_config built from the URL
scrape_config(url, auth) ==
    LET hostname == urlparse(url).value[1].hostname
    IN  [job_name |-> "auto_" \o str(hostname), metrics_path |-> "/metrics",
         targets |-> <<hostname>>, auth_required |-> auth]

\* The job entry add_prometheus_scrape_job prepares; basic_auth = TRUE stands
\* for the basic_auth block with PROM_USER / PROM_PASS.
job_entry(sc) ==
    [job_name |-> sc.job_name, metrics_path |-> sc.metrics_path,
     targets |-> sc.targets, basic_auth |-> sc.auth_required]

\* Mutant of existing_jobs: the job names are read under the wrong key.
existing_jobs_wrong_key(config) == {config[i].metrics_path : i \in DOMAIN config}

\* [job["job_name"] for job in config["scrape_configs"]]
existing_jobs(config) == {config[i].job_name : i \in DOMAIN config}

\* A job of the configuration that no onboarding added.
PromSelf ==
    [job_name |-> "prometheus", metrics_path |-> "/metrics",
     targets |-> <<PyStr("localhost:9090")>>, basic_auth |-> FALSE]

\* The configuration files the service may start with.
InitFiles ==
    { EmptyFile,
      Unreadable,
      [ok |-> TRUE, jobs |-> <<PromSelf>>],
      [ok |-> TRUE, jobs |-> <<PromSelf, job_entry(scrape_config(URL_API, TRUE))>>] }

\* A worker inside a call.
Running(entry, url, decision, builder, pc) ==
    [pc |-> pc, entry |-> entry, url |-> url, decision |-> decision,
     builder |-> builder, sc |-> scrape_config(url, FALSE), loaded |-> EmptyFile,
     config |-> <<>>, ret |-> Pending, failure |-> "none", reloaded |-> FALSE]

\* add_prometheus_scrape_job returns `value`; failure names the step that
\* raised or the non-200 reload, "none" otherwise.
Returned(r, value, failure) ==
    [r EXCEPT !.pc = "added", !.ret = Ok(value), !.failure = failure]

\* A direct call configure_prometheus_scrape(url, auth).
ConfigureScrape(p, url, auth) ==
    /\ proc[p].pc = "idle"
    /\ proc' = [proc EXCEPT ![p] =
                  [Running("configure_prometheus_scrape", url, NoDecision,
                           "configure_prometheus_scrape", "load")
                   EXCEPT !.sc = scrape_config(url, auth)]]
    /\ UNCHANGED <<target, net, result, store, lastSaved, resp, file>>

\* Mutant of config_to_write: the file is read again right before it is
\* opened for writing, and the job is appended to what is there by then.
config_reread(p) ==
    IF file.ok /\ proc[p].sc.job_name \notin existing_jobs(file.jobs)
    THEN Append(file.jobs, job_entry(proc[p].sc))
    ELSE proc[p].config

\* The config the worker writes: the one it loaded, with its job appended.
\* It is not read again between the load and the dump.
config_to_write(p) == proc[p].config

\* with open(path, "r"): config = yaml.safe_load(f) or {}; the duplicate
\* check; the job entry appended to the in-memory config.
Load(p) ==
    /\ proc[p].pc = "load"
    /\ \/ /\ file.ok
          /\ proc' = [proc EXCEPT ![p] =
                IF proc[p].sc.job_name \in existing_jobs(file.jobs)
                THEN Returned([proc[p] EXCEPT !.loaded = file], PyFalse, "none")
                ELSE [proc[p] EXCEPT !.pc = "open", !.loaded = file,
                               !.config = Append(file.jobs, job_entry(proc[p].sc))]]
       \/ \* open() or yaml.safe_load raises (missing file, not YAML, I/O error)
          /\ proc' = [proc EXCEPT ![p] = Returned([proc[p] EXCEPT !.loaded = file], PyFalse, "read")]
    /\ UNCHANGED <<target, net, result, store, lastSaved, resp, file>>

\* with open(path, "w"): the file is truncated when it is opened.
OpenW(p) ==
    /\ proc[p].pc = "open"
    /\ \/ /\ file' = EmptyFile
          /\ proc' = [proc EXCEPT ![p] = [proc[p] EXCEPT !.pc = "dump", !.config = config_to_write(p)]]
       \/ /\ proc' = [proc EXCEPT ![p] = Returned(proc[p], PyFalse, "open")]
          /\ UNCHANGED file
    /\ UNCHANGED <<target, net, result, store, lastSaved, resp>>

\* yaml.safe_dump(config, f) and the close.  The worker writes from offset 0:
\* when another worker has written since this one truncated the file, bytes
\* of that longer content may remain behind this worker's.
Dump(p) ==
    /\ proc[p].pc = "dump"
    /\ \/ /\ file' \in IF file = EmptyFile
                       THEN {[ok |-> TRUE, jobs |-> proc[p].config]}
                       ELSE {[ok |-> TRUE, jobs |-> proc[p].config], Unreadable}
          /\ proc' = [proc EXCEPT ![p] = [proc[p] EXCEPT !.pc = "reload"]]
       \/ \* the write raises: nothing, or only a part, has reached the file
          /\ file' \in {file, Unreadable}
          /\ proc' = [proc EXCEPT ![p] = Returned(proc[p], PyFalse, "dump")]
    /\ UNCHANGED <<target, net, result, store, lastSaved, resp>>

\* requests.post(PROMETHEUS_RELOAD_URL): 200, another status, or an exception
Reload(p) ==
    /\ proc[p].pc = "reload"
    /\ \E outcome \in {"200", "500", "exception"} :
          proc' = [proc EXCEPT ![p] =
                     Returned([proc[p] EXCEPT !.reloaded = TRUE],
                              IF outcome = "200" THEN PyTrue ELSE PyFalse,
                              CASE outcome = "200" -> "none"
                                [] outcome = "500" -> "reload_status"
                                [] outcome = "exception" -> "reload")]
    /\ UNCHANGED <<target, net, result, store, lastSaved, resp, file>>

\* configure_prometheus_scrape returns scrape_config (the worker's sc),
\* whatever add_prometheus_scrape_job returned.
ReturnScrape(p) ==
    /\ proc[p].pc = "added"
    /\ proc[p].entry = "configure_prometheus_scrape"
    /\ proc' = [proc EXCEPT ![p] = Idle]
    /\ UNCHANGED <<target, net, result, store, lastSaved, resp, file>>

ScrapeStep(p) ==
    \/ \E url \in {URL_SVC, URL_SVC_ALT, URL_API} : \E auth \in BOOLEAN :
          ConfigureScrape(p, url, auth)
    \/ Load(p)
    \/ OpenW(p)
    \/ Dump(p)
    \/ Reload(p)
    \/ ReturnScrape(p)

InitScrape ==
    /\ ResolverIdle
    /\ store = [k \in {"app:" \o u : u \in Keys} |-> EmptyHash]
    /\ lastSaved = [k \in Keys |-> NoDecision]
    /\ resp = NoResp
    /\ file \in InitFiles
    /\ proc = [p \in Procs |-> Idle]

\* Sequential calls: one worker.
NextProm == ScrapeStep("w1")

SpecProm == InitScrape /\ [][NextProm]_vars

\* Concurrent calls: two workers, interleaved at every access to the file.
NextConc == \E p \in Procs : ScrapeStep(p)

SpecConc == InitScrape /\ [][NextConc]_vars

---------------------------------------------------------------------------
(* The onboarding handler (app/main.py) and the activator *)

\* strategy.endswith("cloud-metrics"), on the strategies of the resolver
endswith_cloud_metrics(strategy) ==
    strategy \in {"aws-cloud-metrics", "gcp-cloud-metrics", "azure-cloud-metrics"}

\* apply_monitoring_strategy: the configuration builder it dispatches to.
\* Only configure_prometheus_scrape touches anything outside the process.
apply_monitoring_strategy(strategy_info) ==
    LET strategy == IF "strategy" \in DOMAIN strategy_info
                    THEN strategy_info["strategy"] ELSE PyNone
        logs_enabled == IF "logs_enabled" \in DOMAIN strategy_info
                        THEN strategy_info["logs_enabled"] ELSE PyNone
    IN  CASE strategy = PyStr("prometheus") ->
                [builder |-> "configure_prometheus_scrape", auth |-> FALSE]
          [] strategy = PyStr("prometheus-auth") ->
                [builder |-> "configure_prometheus_scrape", auth |-> TRUE]
          [] strategy = PyStr("opentelemetry-http") ->
                [builder |-> "configure_otlp_pipeline", auth |-> FALSE]
          [] strategy = PyStr("opentelemetry-grpc") ->
                [builder |-> "configure_otlp_pipeline", auth |-> FALSE]
          [] strategy = PyStr("statsd") ->
                [builder |-> "configure_statsd_exporter", auth |-> FALSE]
          [] strategy = PyStr("kubernetes-auto") ->
                [builder |-> "configure_k8s_autodiscovery", auth |-> FALSE]
          [] strategy # PyNone /\ endswith_cloud_metrics(str(strategy)) ->
                [builder |-> "configure_cloud_monitoring", auth |-> FALSE]
          [] strategy = PyStr("blackbox-http") ->
                [builder |-> "configure_blackbox_exporter", auth |-> FALSE]
          [] OTHER ->
                IF logs_enabled \notin {PyNone, PyFalse}
                THEN [builder |-> "configure_loki_pipeline", auth |-> FALSE]
                ELSE [builder |-> "skipped", auth |-> FALSE]

\* onboard_app, steps 1 and 2 up to the first access to the config file:
\* the Decision of the resolver and the dispatch of the activator.
Onboard(p, url) ==
    /\ proc[p].pc = "idle"
    /\ \E decision \in Decisions[url] :
          LET action == apply_monitoring_strategy(decision)
          IN  proc' = [proc EXCEPT ![p] =
                IF action.builder = "configure_prometheus_scrape"
                THEN [Running("onboard_app", url, decision, action.builder, "load")
                      EXCEPT !.sc = scrape_config(url, action.auth)]
                ELSE Running("onboard_app", url, decision, action.builder, "save")]
    /\ UNCHANGED <<target, net, result, store, lastSaved, resp, file>>

\* How the activation of a finished onboard_app run went.
Activation(r) ==
    IF r.builder = "configure_prometheus_scrape"
    THEN IF r.ret = Ok(PyTrue) THEN "ok"
         ELSE IF r.failure = "none" THEN "exists" ELSE "failed"
    ELSE IF r.builder = "skipped" THEN "skipped" ELSE "ok"

\* What onboard_app hands back: `return decision`.
onboard_response(r) == Ok(r.decision)

\* onboard_app, the rest of step 2 (the action result is printed and
\* dropped) and step 3: the Decision is saved and returned; an exception
\* of the save leaves the handler.
Finish(p) ==
    /\ proc[p].pc \in {"added", "save"}
    /\ proc[p].entry = "onboard_app"
    /\ \/ /\ store' = [store EXCEPT ![RedisKey(proc[p].url)] =
                          hset(@, _serialize_strategy(proc[p].decision))]
          /\ lastSaved' = [lastSaved EXCEPT ![proc[p].url] = proc[p].decision]
          /\ resp' = [op |-> "onboard_app", key |-> proc[p].url,
                      out |-> onboard_response(proc[p]),
                      activation |-> Activation(proc[p])]
       \/ \E e \in RedisErrors :
          /\ resp' = [op |-> "onboard_app", key |-> proc[p].url, out |-> Raise(e),
                      activation |-> Activation(proc[p])]
          /\ UNCHANGED <<store, lastSaved>>
    /\ proc' = [proc EXCEPT ![p] = Idle]
    /\ UNCHANGED <<target, net, result, file>>

\* The applications onboarded in SpecOnboard.
OnboardTargets == {URL_SVC}

\* Requests handled one after the other.
NextOnboard ==
    \/ \E url \in OnboardTargets : Onboard("w1", url)
    \/ Load("w1")
    \/ OpenW("w1")
    \/ Dump("w1")
    \/ Reload("w1")
    \/ Finish("w1")

SpecOnboard == InitScrape /\ [][NextOnboard]_vars

---------------------------------------------------------------------------
(* Claims on decisions and their persistence *)

StrategyPresent(d) == "strategy" \in DOMAIN d /\ d.strategy # PyNone

WellFormedDecision(d) ==
    /\ StrategyPresent(d) <=> d.monitorable = PyTrue
    /\ d.confidence = PyStr("none") <=> ~StrategyPresent(d)
    /\ "next_steps" \in DOMAIN d => d.monitorable = PyFalse

FetchedNotFound ==
    /\ resp.op = "get_saved_strategy"
    /\ resp.out.exc = "none"
    /\ DOMAIN store[RedisKey(resp.key)] = {}

\* C3: every Decision the resolver returns (here: handed to the save) and
\* the not-found Decision of get_saved_strategy has a strategy iff it is
\* monitorable, confidence none iff it has no strategy, and next_steps only
\* when it is not monitorable.
C3_DecisionInvariant ==
    /\ \A k \in Keys : lastSaved[k] # NoDecision => WellFormedDecision(lastSaved[k])
    /\ FetchedNotFound => WellFormedDecision(resp.out.value[1])

\* The unmonitorable Decision of the resolver was saved for one key and the
\* not-found Decision was returned for the other.
C3_Witness ==
    /\ FetchedNotFound
    /\ resp.out.value[1].monitorable = PyFalse
    /\ \E k \in Keys : /\ lastSaved[k] # NoDecision
                       /\ "next_steps" \in DOMAIN lastSaved[k]

\* C6: the persisted record of a key is exactly the Decision of the latest
\* save (no field of an earlier Decision survives), and there is no record
\* for a key never saved or deleted.
C6_RecordIsLatestDecision ==
    \A k \in Keys :
        IF lastSaved[k] = NoDecision THEN DOMAIN store[RedisKey(k)] = {}
        ELSE store[RedisKey(k)] = _serialize_strategy(lastSaved[k])

\* C7: a fetch after a save returns the saved Decision field by field
\* (next_steps an ordered list, an absent strategy absent); a fetch of a key
\* never saved or deleted gives a Decision with monitorable = false and
\* confidence = none.
C7_SaveFetchRoundTrip ==
    (resp.op = "get_saved_strategy" /\ resp.out.exc = "none") =>
        IF lastSaved[resp.key] # NoDecision
        THEN resp.out.value[1] = lastSaved[resp.key]
        ELSE /\ resp.out.value[1].monitorable = PyFalse
             /\ resp.out.value[1].confidence = PyStr("none")

---------------------------------------------------------------------------
(* Claims on the scrape-config mutation *)

JobNames(jobs) == {jobs[i].job_name : i \in DOMAIN jobs}

UniqueJobNames(jobs) ==
    \A i, j \in DOMAIN jobs : jobs[i].job_name = jobs[j].job_name => i = j

\* add_prometheus_scrape_job has returned in worker p.
Added(p) == proc[p].pc = "added"

\* The call of worker p found its job name in the config it loaded.
FoundExisting(p) ==
    /\ proc[p].loaded.ok
    /\ proc[p].failure # "read"
    /\ proc[p].sc.job_name \in JobNames(proc[p].loaded.jobs)

\* The file holds what worker p loaded plus one entry with p's job name.
AppendedOnce(p) ==
    /\ file.ok
    /\ Len(file.jobs) = Len(proc[p].loaded.jobs) + 1
    /\ SubSeq(file.jobs, 1, Len(proc[p].loaded.jobs)) = proc[p].loaded.jobs
    /\ file.jobs[Len(file.jobs)].job_name = proc[p].sc.job_name

\* C8: in sequential calls of add_prometheus_scrape_job, a call whose job
\* name exists is a no-op (file unchanged, no reload, False); otherwise,
\* when nothing fails, exactly one entry with that name is appended and
\* persisted and then the reload is attempted; a reload is only attempted
\* after the entry is persisted; job names stay unique; every failure is
\* returned as False and nothing is raised.
C8_SequentialAddJob ==
    /\ UniqueJobNames(file.jobs)
    /\ Added("w1") =>
        /\ proc["w1"].ret \in {Ok(PyTrue), Ok(PyFalse)}
        /\ proc["w1"].failure # "none" => proc["w1"].ret = Ok(PyFalse)
        /\ FoundExisting("w1") =>
              /\ file = proc["w1"].loaded
              /\ ~proc["w1"].reloaded
              /\ proc["w1"].ret = Ok(PyFalse)
        /\ (~FoundExisting("w1") /\ proc["w1"].failure = "none") =>
              /\ AppendedOnce("w1")
              /\ proc["w1"].reloaded
              /\ proc["w1"].ret = Ok(PyTrue)
        /\ proc["w1"].reloaded => AppendedOnce("w1")

\* A call returns False as a no-op on a file to which earlier calls have
\* appended the jobs of both hosts.
C8_Witness ==
    /\ Added("w1") /\ FoundExisting("w1")
    /\ proc["w1"].ret = Ok(PyFalse)
    /\ {"auto_svc.local", "auto_api.internal"} \subseteq JobNames(file.jobs)

\* Both workers' calls returned True for different jobs, and both had loaded
\* the same config.
BothAddedFromSameConfig ==
    /\ Added("w1") /\ Added("w2")
    /\ proc["w1"].ret = Ok(PyTrue) /\ proc["w2"].ret = Ok(PyTrue)
    /\ proc["w1"].sc.job_name # proc["w2"].sc.job_name
    /\ proc["w1"].loaded = proc["w2"].loaded

\* C9: the read-modify-write is unsynchronized: when two concurrent calls
\* for different jobs both load the config before either persists, and both
\* return True, the file does not hold both jobs: one persisted append is
\* lost.
C9_LostUpdate ==
    BothAddedFromSameConfig =>
        ~({proc["w1"].sc.job_name, proc["w2"].sc.job_name} \subseteq JobNames(file.jobs))

\* Both calls loaded the initial config (its only job is "prometheus"),
\* both returned True, and the readable file holds exactly one of the two
\* new jobs.
C9_Witness ==
    /\ BothAddedFromSameConfig
    /\ proc["w1"].loaded = [ok |-> TRUE, jobs |-> <<PromSelf>>]
    /\ file.ok
    /\ Cardinality({proc["w1"].sc.job_name, proc["w2"].sc.job_name}
                      \cap JobNames(file.jobs)) = 1

---------------------------------------------------------------------------
(* Claims on the onboarding handler *)

\* The run that produced response r failed in its activation (the config
\* mutation or the reload) or in the save.
RunFailed(r) ==
    /\ r.op = "onboard_app"
    /\ r.activation = "failed" \/ r.out.exc # "none"

\* The run that produced response r activated its strategy, or found no
\* strategy to activate, and saved the Decision.
RunSucceeded(r) ==
    /\ r.op = "onboard_app"
    /\ r.activation \in {"ok", "skipped"}
    /\ r.out.exc = "none"

\* C10: a run of onboard_app whose activation or save failed is answered
\* differently from a run that succeeded (with or without a strategy): a
\* failed run and a successful run that follow one another never hand the
\* caller the same response.
C10_FailureDistinguishable ==
    [][ /\ (RunFailed(resp) /\ RunSucceeded(resp')) => resp'.out # resp.out
        /\ (RunSucceeded(resp) /\ RunFailed(resp')) => resp'.out # resp.out ]_vars

===========================================================================
